---- MODULE Spec2Model ----
(***************************************************************************)
(* Model of the ingestion / classification / dedup pipeline of main.py:    *)
(* the feed job (fetch_action), the chat poller (telegram_poller_loop,     *)
(* process_telegram_message), the classifier wrapper                       *)
(* (summarize_and_classify) and the article store (init_db, save_article). *)
(*                                                                         *)
(* Text is modelled as sequences of one-character strings so that lower(), *)
(* substring containment and f-string formatting are computed, not assumed.*)
(* Confidence values are integers in hundredths (0.92 is 92, 1.7 is 170).  *)
(***************************************************************************)
EXTENDS Integers, Sequences, FiniteSets, TLC

\* ---------------------------------------------------------------- bounds
MaxUpdates == 3
MaxJointUpdates == 1
MaxLoopUpdates == 2
MaxRuns == 1
MaxEntries == 2
MaxUrlUpdates == 2
MaxOverCap == 1
MaxRedeliverUpdates == 1
MaxRestarts == 1
FirstUpdateId == 5

\* ------------------------------------------------------- program constants
KEYWORDS ==
  << <<"a", "n", "o", "n", "y", "m", "o", "u", "s">>,
     <<"o", "p", " ", "u", "n", "i", "t", "e">>,
     <<"o", "p", "u", "n", "i", "t", "e">>,
     <<"o", "p", " ", "u", "n", "i", "t", "y">>,
     <<"o", "p", "u", "n", "i", "t", "y">>,
     <<"o", "p", " ", "i", "s", "r", "a", "e", "l">>,
     <<"o", "p", " ", "r", "u", "s", "s", "i", "a">>,
     <<"o", "p", " ", "p", "a", "r", "i", "s">>,
     <<"o", "p", "w", "i", "k", "i">>,
     <<"o", "p", "h", "a", "c", "k">>,
     <<"o", "p", "e", "r", "a", "t", "i", "o", "n", " ", "a", "n", "o", "n", "y", "m", "o", "u", "s">>,
     <<"c", "l", "a", "i", "m", "e", "d", " ", "o", "p", "e", "r", "a", "t", "i", "o", "n">>,
     <<"h", "a", "c", "k", "t", "i", "v", "i", "s", "m">>,
     <<"h", "a", "c", "k", "t", "i", "v", "i", "s", "t", "e">> >>

DEFAULT_FEEDS == << "wired", "krebs", "sophos", "zdnet" >>
CUSTOM_FEED == "custom"
FEED_CAP == 10
SUMMARY_MAX == 1000
POLL_LIMIT == 50
CATEGORIES == {"news", "analysis", "claimed_operation", "historical", "opinion", "other"}

\* --------------------------------------------------------- character data
UPPER == <<"A", "B", "C", "D", "E", "F", "G", "H", "I", "J", "K", "L", "M", "N", "O", "P", "Q", "R", "S", "T", "U", "V", "W", "X", "Y", "Z">>
LOWER == <<"a", "b", "c", "d", "e", "f", "g", "h", "i", "j", "k", "l", "m", "n", "o", "p", "q", "r", "s", "t", "u", "v", "w", "x", "y", "z">>
DIGITS == <<"0", "1", "2", "3", "4", "5", "6", "7", "8", "9">>
HTTPS_T_ME == <<"h", "t", "t", "p", "s", ":", "/", "/", "t", ".", "m", "e", "/">>
TG_SCHEME == <<"t", "g", ":", "/", "/">>
DefaultTitle == <<"T", "e", "l", "e", "g", "r", "a", "m">>

\* sample texts the environment can deliver (titles, pages, chat messages)
TitleAnon == <<"A", "n", "o", "n", "y", "m", "o", "u", "s", " ", "c", "l", "a", "i", "m", "s">>
TitleOp == <<"n", "e", "w", " ", "o", "p">>
PageRain == <<"r", "a", "i", "n">>
PageUnite == <<"u", "n", "i", "t", "e", " ", "u", "s">>
TextHack == <<"H", "a", "c", "k", "t", "i", "v", "i", "s", "m", " ", "u", "p">>
TextHello == <<"h", "e", "l", "l", "o">>
CaptionOps == <<"O", "P", "W", "I", "K", "I">>
ChatAnon == <<"A", "n", "o", "n", "y", "m", "o", "u", "s">>
ChatNews == <<"N", "e", "w", "s">>
UserChan == <<"c", "h", "a", "n">>
LinkNews == <<"h", "t", "t", "p", "s", ":", "/", "/", "n", ".", "i", "o", "/", "1">>
LinkChan == <<"h", "t", "t", "p", "s", ":", "/", "/", "t", ".", "m", "e", "/", "c", "h", "a", "n", "/", "1">>
EmptyStr == << >>
Space == << " " >>

\* ------------------------------------------------------------ Python values
\* None / an int, as the optional cursor and optional fields
None == << >>
Some(x) == << x >>
IsNone(o) == o = << >>
Val(o) == o[1]

Min(a, b) == IF a < b THEN a ELSE b

\* JSON values returned by the completion backend, tagged by type
JStr(s, n) == [t |-> "str", s |-> s, n |-> n]
JNum(x) == [t |-> "num", x |-> x]
JList == [t |-> "list"]
JMissing == [t |-> "missing"]
JObj(s, c, f) == [t |-> "obj", summary |-> s, category |-> c, confidence |-> f]
NotJson == [t |-> "notjson"]

\* str.lower() on one character and on a whole string
UpperIndex ==
  [c \in { UPPER[i] : i \in 1..Len(UPPER) } |-> CHOOSE i \in 1..Len(UPPER) : UPPER[i] = c]

LowerChar(c) == IF c \in DOMAIN UpperIndex THEN LOWER[UpperIndex[c]] ELSE c

Lower(s) == [i \in 1..Len(s) |-> LowerChar(s[i])]

\* Python's `k in s` for strings: k occurs as a contiguous substring of s
StrIn(k, s) ==
  \E i \in 1..(Len(s) - Len(k) + 1) : SubSeq(s, i, i + Len(k) - 1) = k

AlwaysRelevant(lowered) == TRUE
\* any(k.lower() in combined for k in KEYWORDS)
LoweredKeywords == [j \in 1..Len(KEYWORDS) |-> Lower(KEYWORDS[j])]
any_keyword_in(lowered) ==
  \E j \in 1..Len(KEYWORDS) : StrIn(LoweredKeywords[j], lowered)

\* str(n) for a non-negative integer
RECURSIVE NatToStr(_)
NatToStr(n) ==
  IF n < 10 THEN << DIGITS[n + 1] >>
  ELSE NatToStr(n \div 10) \o << DIGITS[(n % 10) + 1] >>

IntToStr(n) == IF n < 0 THEN << "-" >> \o NatToStr(0 - n) ELSE NatToStr(n)

\* truthiness of an optional string / optional value, and Python's `a or b`
Truthy(o) == ~IsNone(o) /\ Val(o) # << >>
Or(a, b) == IF Truthy(a) THEN a ELSE b
\* (x or ""): the string itself, "" when absent
OrEmpty(o) == IF Truthy(o) THEN Val(o) ELSE EmptyStr

\* datetime.isoformat() of a time given in seconds
Iso(n) == << "T" >> \o IntToStr(n)

\* ------------------------------------------------------------- Classifier
\* outcomes of openai.ChatCompletion.create: it raises, or returns text that
\* json.loads rejects, or text holding a JSON value
Raises == [raises |-> TRUE, out |-> NotJson]
Returns(v) == [raises |-> FALSE, out |-> v]

RaisesError == Raises
ReturnsProse == Returns(NotJson)
ReturnsComplete == Returns(JObj(JStr("facts", 5), JStr("claimed_operation", 17), JNum(92)))
ReturnsOver == Returns(JObj(JStr("long", 1500), JStr("breaking", 8), JNum(170)))
ReturnsUnder == Returns(JObj(JMissing, JMissing, JNum(-30)))
ReturnsListCategory == Returns(JObj(JStr("facts", 5), JList, JStr("0.5", 3)))
ReturnsBadFields == Returns(JObj(JNum(7), JStr("news", 4), JStr("high", 4)))

Completions ==
  { RaisesError, ReturnsProse, ReturnsComplete, ReturnsOver, ReturnsUnder,
    ReturnsListCategory, ReturnsBadFields }

\* the fallback triple of the except branch
SENTINEL ==
  [summary |-> JStr("(summary failed)", 16), category |-> JStr("other", 5), confidence |-> 0]

\* dict.get(key, default)
DictGet(d, key, default) == IF d[key].t = "missing" THEN default ELSE d[key]

\* x[:1000] raises TypeError unless x is a str or a list
Sliceable(v) == v.t \in {"str", "list"}
Slice(v, n) == IF v.t = "str" THEN [v EXCEPT !.n = Min(v.n, n)] ELSE v

\* float(x): numbers and numeric strings convert, anything else raises
NumericStrings == {"0.5"}
Floatable(v) == v.t = "num" \/ (v.t = "str" /\ v.s \in NumericStrings)
Float(v) == IF v.t = "num" THEN v.x ELSE 50

CategoryOf(v) == v

summarize_and_classify(c) ==
  IF c.raises THEN SENTINEL
  ELSE IF c.out.t = "notjson" THEN SENTINEL
  ELSE IF c.out.t # "obj" THEN SENTINEL
  ELSE LET sv == DictGet(c.out, "summary", JStr("", 0))
           cv == DictGet(c.out, "category", JStr("other", 5))
           fv == DictGet(c.out, "confidence", JNum(0))
       IN IF ~Sliceable(sv) \/ ~Floatable(fv) THEN SENTINEL
          ELSE [summary |-> Slice(sv, SUMMARY_MAX),
                category |-> CategoryOf(cv),
                confidence |-> Float(fv)]

\* ------------------------------------------------------------ ArticleStore
\* sqlite3 binds None, int, float and str; any other Python object raises
Bindable(v) == v.t \in {"str", "num", "null"}
BindableItem(item) == Bindable(item.summary) /\ Bindable(item.category)

HasUrl(st, url) == \E i \in 1..Len(st) : st[i].url = url

\* the row an INSERT builds: id is the next rowid, fetched_at is utcnow()
RowOf(st, item, now) ==
  [id |-> Len(st) + 1, url |-> item.url, source |-> item.source, title |-> item.title,
   published_at |-> item.published_at, content |-> item.content,
   summary |-> item.summary, category |-> item.category,
   confidence |-> item.confidence, fetched_at |-> Iso(now)]

\* INSERT OR IGNORE against the UNIQUE(url) constraint: the row to add, if any
InsertAlways(st, item, now) == Some(RowOf(st, item, now))
InsertOrIgnore(st, item, now) ==
  IF HasUrl(st, item.url) THEN None ELSE Some(RowOf(st, item, now))

\* a writer waits while another connection holds the database write lock
NoWriteLock(lock, t) == TRUE
CanWrite(lock, t) == lock = "none"

\* conn.commit(): the pending row becomes part of the table
Committed(st, pend) == IF IsNone(pend) THEN st ELSE Append(st, Val(pend))

\* ---------------------------------------------------------------- FeedReader
\* raw feed entries as feedparser yields them (absent fields are None)
Entry(link, id, title, published, updated) ==
  [link |-> link, id |-> id, title |-> title, published |-> published, updated |-> updated]

RawEntries ==
  { Entry(Some(LinkChan), None, Some(TitleAnon), Some(<< "d", "1" >>), None),
    Entry(None, Some(LinkNews), Some(TitleOp), None, Some(<< "d", "2" >>)),
    Entry(None, None, None, None, None) }

\* the item fetch_rss builds from one entry
RssItem(e) ==
  [url |-> Or(e.link, e.id),
   title |-> IF IsNone(e.title) THEN EmptyStr ELSE Val(e.title),
   published_at |-> OrEmpty(Or(e.published, e.updated))]

fetch_rss(doc) == [i \in 1..Len(doc) |-> RssItem(doc[i])]

\* feed documents the network can return; MaxEntries bounds the entries the
\* feeds return to the job over all its runs
RECURSIVE SeqsUpTo(_, _)
SeqsUpTo(S, n) ==
  IF n = 0 THEN { << >> }
  ELSE LET shorter == SeqsUpTo(S, n - 1)
       IN shorter \cup { Append(q, x) : q \in { r \in shorter : Len(r) = n - 1 }, x \in S }

FeedDocs == SeqsUpTo(RawEntries, MaxEntries)

\* the inputs of the runs in which both producers are active: feeds whose
\* entries link to a channel post, and updates that carry that post
JointDocs == { d \in FeedDocs : Len(d) = 1 /\ d[1].link = Some(LinkChan) }

\* a feed with more entries than one run processes, and one that just fits
LongDoc(n) ==
  [i \in 1..n |->
     IF i % 2 = 1 THEN Entry(None, Some(LinkNews), Some(TitleOp), None, Some(<< "d", "2" >>))
     ELSE Entry(Some(LinkChan), None, Some(TitleAnon), Some(<< "d", "1" >>), None)]
LongDocs == { LongDoc(n) : n \in FEED_CAP..(FEED_CAP + MaxOverCap) }
CapCompletions == { ReturnsComplete, ReturnsListCategory }

\* items[:10]
NoCap(items) == items
Head10(items) == SubSeq(items, 1, Min(Len(items), FEED_CAP))

\* urlparse(f).netloc
Netloc(f) ==
  CASE f = "wired" -> "www.wired.com"
    [] f = "krebs" -> "krebsonsecurity.com"
    [] f = "sophos" -> "nakedsecurity.sophos.com"
    [] f = "zdnet" -> "www.zdnet.com"
    [] OTHER -> "custom.example"

\* texts fetch_page_text can return for a url; "" on any request failure,
\* which is the only outcome when the url is None
PageTexts(url) ==
  IF IsNone(url) THEN { EmptyStr }
  ELSE IF Val(url) = LinkChan THEN { EmptyStr, PageRain }
  ELSE { EmptyStr, PageRain, PageUnite }

FeedCombined(it, content) == it.title \o Space \o content

FeedItem(f, it, content, cls) ==
  [url |-> Val(it.url), source |-> Netloc(f), title |-> it.title,
   published_at |-> it.published_at, content |-> content,
   summary |-> cls.summary, category |-> cls.category, confidence |-> cls.confidence]

\* ------------------------------------------------------------ chat updates
Chat(id, title, first_name, username) ==
  [id |-> id, title |-> title, first_name |-> first_name, username |-> username]

Msg(chat, message_id, date, text, caption) ==
  [chat |-> chat, message_id |-> message_id, date |-> date, text |-> text, caption |-> caption]

Body(message, channel_post, edited_message) ==
  [message |-> message, channel_post |-> channel_post, edited_message |-> edited_message]

\* payloads the messaging backend can deliver in an update
UpdateBodies ==
  { Body(None, None, None),
    Body(Some(Msg(Chat(100, None, Some(ChatNews), None), 1, 0, Some(TextHack), None)), None, None),
    Body(None, Some(Msg(Chat(200, Some(ChatNews), None, Some(UserChan)), 1, 7, None, Some(CaptionOps))), None),
    Body(Some(Msg(Chat(100, None, Some(ChatNews), None), 2, 8, Some(TextHello), None)), None, None),
    Body(None, None, Some(Msg(Chat(-300, Some(ChatAnon), None, None), 12, 9, Some(TextHello), None))),
    Body(Some(Msg(Chat(-300, Some(ChatAnon), None, None), 13, 9, None, None)), None, None) }

\* relevant messages of several chats, with and without a public username,
\* whose ids share digits
UserCh == <<"c", "h">>
UrlMessages ==
  { Msg(Chat(1, None, Some(ChatNews), None), 23, 7, Some(TextHack), None),
    Msg(Chat(1, None, Some(ChatNews), None), 2, 7, Some(TextHack), None),
    Msg(Chat(12, None, Some(ChatNews), None), 3, 7, Some(TextHack), None),
    Msg(Chat(-1, Some(ChatNews), None, None), 23, 7, Some(TextHack), None),
    Msg(Chat(200, Some(ChatNews), None, Some(UserChan)), 1, 7, Some(TextHack), None),
    Msg(Chat(200, Some(ChatNews), None, Some(UserChan)), 12, 7, Some(TextHack), None),
    Msg(Chat(201, Some(ChatNews), None, Some(UserCh)), 1, 7, Some(TextHack), None),
    Msg(Chat(201, Some(ChatNews), None, Some(UserCh)), 2, 7, Some(TextHack), None) }
UrlBodies == { Body(Some(m), None, None) : m \in UrlMessages }
UrlCompletions == { ReturnsComplete, ReturnsListCategory }
RedeliverCompletions == { RaisesError, ReturnsComplete, ReturnsOver, ReturnsListCategory }

\* completions met by the feed job
FeedCompletions == { RaisesError, ReturnsComplete, ReturnsOver, ReturnsListCategory }
JointBodies == { b \in UpdateBodies : ~IsNone(b.channel_post) }
JointCompletions == { ReturnsComplete, ReturnsOver }

Update(id, body) == [update_id |-> id, body |-> body]

\* u.get("message") or u.get("channel_post") or u.get("edited_message")
MsgOf(u) ==
  IF ~IsNone(u.body.message) THEN u.body.message
  ELSE IF ~IsNone(u.body.channel_post) THEN u.body.channel_post
  ELSE u.body.edited_message

\* chat.get("title") or chat.get("first_name") or chat.get("username")
ChatTitle(chat) == Or(Or(chat.title, chat.first_name), chat.username)

\* msg.get("text") or msg.get("caption") or ""
TextOrDefault(msg) == OrEmpty(Or(Or(msg.text, msg.caption), Some(DefaultTitle)))
TextOf(msg) == OrEmpty(Or(msg.text, msg.caption))

\* the arguments the loop passes to process_telegram_message
ArgsOf(msg) ==
  [chat_id |-> msg.chat.id, chat_title |-> ChatTitle(msg.chat),
   username |-> msg.chat.username, message_id |-> msg.message_id,
   text |-> TextOf(msg), date_ts |-> msg.date]

ChatCombined(a) == OrEmpty(a.chat_title) \o Space \o OrEmpty(a.username) \o Space \o a.text

\* the pseudo-URL of a message
MsgUrlChatOnly(a) ==
  IF Truthy(a.username) THEN HTTPS_T_ME \o Val(a.username) \o << "/" >>
  ELSE TG_SCHEME \o IntToStr(a.chat_id) \o << "/" >>
MsgUrl(a) ==
  IF Truthy(a.username)
  THEN HTTPS_T_ME \o Val(a.username) \o << "/" >> \o IntToStr(a.message_id)
  ELSE TG_SCHEME \o IntToStr(a.chat_id) \o << "/" >> \o IntToStr(a.message_id)

ChatItem(a, cls, now) ==
  [url |-> MsgUrl(a), source |-> "telegram",
   title |-> IF Truthy(a.chat_title) THEN Val(a.chat_title)
             ELSE IF Truthy(a.username) THEN Val(a.username) ELSE DefaultTitle,
   published_at |-> IF a.date_ts # 0 THEN Iso(a.date_ts) ELSE Iso(now),
   content |-> a.text,
   summary |-> cls.summary, category |-> cls.category, confidence |-> cls.confidence]

\* offset = u["update_id"] + 1
CursorBehind(u) == u.update_id
CursorAfter(u) == u.update_id + 1

\* params["offset"] is sent only `if offset:`
OffsetParam(off) == IF ~IsNone(off) /\ Val(off) # 0 THEN off ELSE None

\* the messaging backend: updates below the supplied offset are confirmed and
\* dropped, the oldest remaining ones are returned, at most `limit` of them
Unconfirmed(q, param) ==
  IF IsNone(param) THEN q ELSE SelectSeq(q, LAMBDA u : u.update_id >= Val(param))

GetUpdatesResult(q, param) ==
  LET rest == Unconfirmed(q, param)
  IN SubSeq(rest, 1, Min(Len(rest), POLL_LIMIT))

UpdateIds == FirstUpdateId .. (FirstUpdateId + MaxUpdates - 1)

\* ------------------------------------------------------------------- state
VARIABLES
  scope,               \* which inputs the environment delivers: "feed" and "cap" feed
                       \* entries, "poller", "loop", "urls" and "redeliver" chat
                       \* updates, "both" the joint inputs
  TELEGRAM_BOT_TOKEN,  \* TRUE iff the credential is set
  TELEGRAM_POLLING,    \* the polling switch
  store,               \* table articles, in rowid order
  dbLock,              \* holder of the database write lock, or "none"
  pending,             \* per connection: the uncommitted row, if any
  clock,               \* datetime.utcnow(), in ticks; it is read at every save and
                       \* observed to advance between two inserts
  ppc,                 \* poller position
  offset,              \* the poller's cursor
  batch,               \* updates of the batch being iterated
  bi,                  \* index of the next update of the batch
  pitem,               \* item the poller classified and is saving, with its inputs
  queue,               \* backend: updates not yet confirmed
  nextId,              \* backend: id of the next update to arrive
  fpc,                 \* feed job position
  runs,                \* /fetch requests served so far
  feeds,               \* feed list of the running job
  fi,                  \* index of the current feed
  items,               \* items of the current feed, as fetch_rss returned them
  ii,                  \* index of the current item
  fitem,               \* item the feed job classified and is saving, with its inputs
  fetched,             \* counter `fetched`
  saved,               \* counter `saved`
  flash,               \* counts of the last flash message
  delivered,           \* entries the feeds have returned to the job so far
  withPayload,         \* history: ids of the arrived updates that carry a message payload
  handled,             \* history: per update id, times the for-loop took it
  called,              \* history: per update id, calls of process_telegram_message
  lastBatchMax,        \* history: largest update id of the last ok non-empty batch
  firstSaves,          \* history: per url, the first item INSERTed and when
  raisedIn,            \* history: threads in which save_article has raised
  contended,           \* history: urls INSERTed while the other thread was in save_article for the same url
  dropped,             \* history: producers that have dropped an item for lack of a keyword
  restarts,            \* times the process has been started again
  returned             \* history: ids of the updates whose pass of the for-loop ended normally

cfgVars == << scope, TELEGRAM_BOT_TOKEN, TELEGRAM_POLLING >>

\* the environment's inputs in each scope
DocsIn(sc) == IF sc = "both" THEN JointDocs ELSE IF sc = "cap" THEN LongDocs ELSE FeedDocs
EntriesIn(sc) ==
  IF sc = "cap" THEN FEED_CAP + MaxOverCap
  ELSE IF sc = "both" THEN MaxJointUpdates
  ELSE MaxEntries
BodiesIn(sc) ==
  IF sc = "both" THEN JointBodies ELSE IF sc = "urls" THEN UrlBodies ELSE UpdateBodies
UpdatesIn(sc) ==
  IF sc = "both" THEN MaxJointUpdates
  ELSE IF sc = "loop" THEN MaxLoopUpdates
  ELSE IF sc = "urls" THEN MaxUrlUpdates
  ELSE IF sc = "redeliver" THEN MaxRedeliverUpdates
  ELSE MaxUpdates
CompletionsIn(sc) ==
  IF sc = "both" THEN JointCompletions
  ELSE IF sc = "feed" THEN FeedCompletions
  ELSE IF sc = "urls" THEN UrlCompletions
  ELSE IF sc = "cap" THEN CapCompletions
  ELSE IF sc = "redeliver" THEN RedeliverCompletions
  ELSE Completions
dbVars == << store, dbLock, pending, clock >>
pollVars == << ppc, offset, batch, bi, pitem >>
backendVars == << queue, nextId, withPayload >>
feedVars == << fpc, runs, feeds, fi, items, ii, fitem, fetched, saved, flash, delivered >>
pollHist == << handled, called, lastBatchMax >>
saveHist == << firstSaves, raisedIn, contended >>

vars ==
  << cfgVars, dbVars, pollVars, backendVars, feedVars, pollHist, saveHist, dropped,
     restarts, returned >>

NoItem == << >>

InitIn(sc, tokens, switches) ==
  /\ scope = sc
  /\ TELEGRAM_BOT_TOKEN \in tokens
  /\ TELEGRAM_POLLING \in switches
  /\ store = << >>
  /\ dbLock = "none"
  /\ pending = [t \in {"feed", "poller"} |-> None]
  /\ clock = 1
  /\ ppc = "init"
  /\ offset = None
  /\ batch = << >>
  /\ bi = 1
  /\ pitem = NoItem
  /\ queue = << >>
  /\ nextId = FirstUpdateId
  /\ fpc = "idle"
  /\ runs = 0
  /\ feeds = << >>
  /\ fi = 1
  /\ items = << >>
  /\ ii = 1
  /\ fitem = NoItem
  /\ fetched = 0
  /\ saved = 0
  /\ flash = None
  /\ delivered = 0
  /\ withPayload = {}
  /\ handled = [id \in UpdateIds |-> 0]
  /\ called = [id \in UpdateIds |-> 0]
  /\ lastBatchMax = None
  /\ firstSaves = {}
  /\ raisedIn = {}
  /\ contended = {}
  /\ dropped = {}
  /\ restarts = 0
  /\ returned = {}

InitBoth == InitIn("both", {TRUE}, {TRUE})
InitFeed == InitIn("feed", {FALSE}, {TRUE})
InitPoller == InitIn("poller", BOOLEAN, BOOLEAN)
InitLoop == InitIn("loop", BOOLEAN, BOOLEAN)
InitUrls == InitIn("urls", {TRUE}, BOOLEAN)
InitCap == InitIn("cap", {FALSE}, {TRUE})
InitRedeliver == InitIn("redeliver", {TRUE}, {TRUE})
Init == InitFeed \/ InitLoop \/ InitBoth

\* ---------------------------------------------------------- save_article
\* cur.execute(INSERT OR IGNORE ...) of thread t: a value sqlite3 cannot bind
\* raises before anything is written; otherwise the statement runs under the
\* write lock against the committed table
RecordFirst(log, item, now) ==
  IF \E r \in log : r.url = item.url THEN log
  ELSE log \cup { [url |-> item.url, item |-> item, now |-> now] }

SaveRaises(t, sv) ==
  /\ ~BindableItem(sv.item)
  /\ raisedIn' = raisedIn \cup {t}
  /\ UNCHANGED << dbVars, firstSaves, contended >>

\* thread t is inside save_article with an item of this url
Saving(t, url) ==
  IF t = "feed" THEN fpc \in {"save", "commit"} /\ fitem.item.url = url
  ELSE ppc \in {"save", "commit"} /\ pitem.item.url = url

Other(t) == IF t = "feed" THEN "poller" ELSE "feed"

SaveExecute(t, sv) ==
  /\ BindableItem(sv.item)
  /\ CanWrite(dbLock, t)
  /\ dbLock' = t
  /\ pending' = [pending EXCEPT ![t] = InsertOrIgnore(store, sv.item, clock)]
  /\ firstSaves' = RecordFirst(firstSaves, sv.item, clock)
  /\ contended' = IF Saving(Other(t), sv.item.url) THEN contended \cup {sv.item.url} ELSE contended
  /\ UNCHANGED << store, clock, raisedIn >>

\* conn.commit(); conn.close()
SaveCommit(t) ==
  /\ store' = Committed(store, pending[t])
  /\ pending' = [pending EXCEPT ![t] = None]
  /\ dbLock' = IF dbLock = t THEN "none" ELSE dbLock
  /\ clock' = IF IsNone(pending[t]) THEN clock ELSE clock + 1
  /\ UNCHANGED << firstSaves, raisedIn, contended >>

\* ------------------------------------------------------------ fetch_action
\* POST /fetch arrives (app.run starts after start_telegram_thread returned):
\* feeds = DEFAULT_FEEDS plus the optional custom feed
FetchRequest ==
  /\ fpc = "idle"
  /\ ppc # "init"
  /\ scope \in {"feed", "both", "cap"}
  /\ runs < MaxRuns
  /\ \E custom \in {"", CUSTOM_FEED} :
       feeds' = IF custom # "" THEN Append(DEFAULT_FEEDS, custom) ELSE DEFAULT_FEEDS
  /\ runs' = runs + 1
  /\ fetched' = 0
  /\ saved' = 0
  /\ fi' = 1
  /\ fpc' = "feeds"
  /\ UNCHANGED << items, ii, fitem, flash, delivered >>
  /\ UNCHANGED << cfgVars, dbVars, pollVars, backendVars, pollHist, saveHist >>
  /\ UNCHANGED << dropped, restarts, returned >>

\* for f in feeds: items = fetch_rss(f), [] when it raises
FeedParse ==
  /\ fpc = "feeds"
  /\ fi <= Len(feeds)
  /\ \/ \E doc \in DocsIn(scope) :
          /\ delivered + Len(doc) <= EntriesIn(scope)
          /\ items' = fetch_rss(doc)
          /\ delivered' = delivered + Len(doc)
     \/ /\ items' = << >>
        /\ UNCHANGED delivered
  /\ ii' = 1
  /\ fpc' = "items"
  /\ UNCHANGED << runs, feeds, fi, fitem, fetched, saved, flash >>
  /\ UNCHANGED << cfgVars, dbVars, pollVars, backendVars, pollHist, saveHist >>
  /\ UNCHANGED << dropped, restarts, returned >>

\* the locals of fetch_action before a request and after its return
NoLocals ==
  /\ feeds' = << >>
  /\ fi' = 1
  /\ items' = << >>
  /\ ii' = 1
  /\ fitem' = NoItem
  /\ fetched' = 0
  /\ saved' = 0
  /\ UNCHANGED delivered

\* the feed loop is exhausted: flash(...) and redirect
FeedFinish ==
  /\ fpc = "feeds"
  /\ fi > Len(feeds)
  /\ flash' = Some([fetched |-> fetched, saved |-> saved])
  /\ fpc' = "idle"
  /\ NoLocals
  /\ UNCHANGED runs
  /\ UNCHANGED << cfgVars, dbVars, pollVars, backendVars, pollHist, saveHist >>
  /\ UNCHANGED << dropped, restarts, returned >>

\* the item loop over items[:10] is exhausted: next feed
FeedItemsDone ==
  /\ fpc = "items"
  /\ ii > Len(Head10(items))
  /\ fi' = fi + 1
  /\ fpc' = "feeds"
  /\ UNCHANGED << runs, feeds, items, ii, fitem, fetched, saved, flash, delivered >>
  /\ UNCHANGED << cfgVars, dbVars, pollVars, backendVars, pollHist, saveHist >>
  /\ UNCHANGED << dropped, restarts, returned >>

\* one item: fetch_page_text, the two `continue` checks, summarize_and_classify
FeedEntry ==
  /\ fpc = "items"
  /\ ii <= Len(Head10(items))
  /\ LET it == Head10(items)[ii] IN
     \E content \in PageTexts(it.url) :
       LET combined == FeedCombined(it, content) IN
       IF content = EmptyStr \/ ~any_keyword_in(Lower(combined))
       THEN /\ ii' = ii + 1
            /\ dropped' = IF content = EmptyStr THEN dropped ELSE dropped \cup {"feed"}
            /\ UNCHANGED << fpc, fitem >>
       ELSE \E compl \in CompletionsIn(scope) :
            /\ fitem' = [item |-> FeedItem(feeds[fi], it, content, summarize_and_classify(compl)),
                         completion |-> compl, combined |-> combined]
            /\ fpc' = "save"
            /\ UNCHANGED << ii, dropped >>
  /\ UNCHANGED << runs, feeds, fi, items, fetched, saved, flash, delivered >>
  /\ UNCHANGED << cfgVars, dbVars, pollVars, backendVars, pollHist, saveHist >>
  /\ UNCHANGED << restarts, returned >>

\* save_article raises: nothing in fetch_action catches it, the request fails
FeedSaveRaises ==
  /\ fpc = "save"
  /\ SaveRaises("feed", fitem)
  /\ fpc' = "raised"
  /\ UNCHANGED << runs, feeds, fi, items, ii, fitem, fetched, saved, flash, delivered >>
  /\ UNCHANGED << cfgVars, pollVars, backendVars, pollHist >>
  /\ UNCHANGED << dropped, restarts, returned >>

FeedSaveExecute ==
  /\ fpc = "save"
  /\ SaveExecute("feed", fitem)
  /\ fpc' = "commit"
  /\ UNCHANGED << runs, feeds, fi, items, ii, fitem, fetched, saved, flash, delivered >>
  /\ UNCHANGED << cfgVars, pollVars, backendVars, pollHist >>
  /\ UNCHANGED << dropped, restarts, returned >>

\* commit, then saved += 1; fetched += 1
FeedSaveCommit ==
  /\ fpc = "commit"
  /\ SaveCommit("feed")
  /\ saved' = saved + 1
  /\ fetched' = fetched + 1
  /\ fitem' = NoItem
  /\ fpc' = "sleep"
  /\ UNCHANGED << runs, feeds, fi, items, ii, flash, delivered >>
  /\ UNCHANGED << cfgVars, pollVars, backendVars, pollHist >>
  /\ UNCHANGED << dropped, restarts, returned >>

\* time.sleep(1.0), then the next item
FeedSleep ==
  /\ fpc = "sleep"
  /\ ii' = ii + 1
  /\ fpc' = "items"
  /\ UNCHANGED << runs, feeds, fi, items, fitem, fetched, saved, flash, delivered >>
  /\ UNCHANGED << cfgVars, dbVars, pollVars, backendVars, pollHist, saveHist >>
  /\ UNCHANGED << dropped, restarts, returned >>

\* the failed request ends (HTTP 500); the server accepts the next one
FeedAbort ==
  /\ fpc = "raised"
  /\ fpc' = "idle"
  /\ NoLocals
  /\ UNCHANGED << runs, flash >>
  /\ UNCHANGED << cfgVars, dbVars, pollVars, backendVars, pollHist, saveHist >>
  /\ UNCHANGED << dropped, restarts, returned >>

\* ------------------------------------------------------- messaging backend
\* a new update reaches the bot's queue; ids are consecutive
Arrive ==
  /\ TELEGRAM_BOT_TOKEN
  /\ nextId < FirstUpdateId + UpdatesIn(scope)
  /\ \E body \in BodiesIn(scope) :
       /\ queue' = Append(queue, Update(nextId, body))
       /\ withPayload' = IF IsNone(MsgOf(Update(nextId, body))) THEN withPayload
                         ELSE withPayload \cup {nextId}
  /\ nextId' = nextId + 1
  /\ UNCHANGED << cfgVars, dbVars, pollVars, feedVars, pollHist, saveHist >>
  /\ UNCHANGED << dropped, restarts, returned >>

\* ------------------------------------------------------------- ChatPoller
\* the loop is entered iff start_telegram_thread starts the thread (token and
\* switch set) and the loop function does not return on `if not token`
PollsRegardless(token, switch) == switch
PollerRuns(token, switch) == (token /\ switch) /\ token

\* start_telegram_thread and the token check at the top of the loop function
StartThread ==
  /\ ppc = "init"
  /\ ppc' = IF PollerRuns(TELEGRAM_BOT_TOKEN, TELEGRAM_POLLING) THEN "poll" ELSE "off"
  /\ UNCHANGED << offset, batch, bi, pitem >>
  /\ UNCHANGED << cfgVars, dbVars, backendVars, feedVars, pollHist, saveHist >>
  /\ UNCHANGED << dropped, restarts, returned >>

MaxId(b) == CHOOSE m \in { b[i].update_id : i \in 1..Len(b) } :
              \A i \in 1..Len(b) : b[i].update_id <= m

\* requests.get(getUpdates) answered ok: the batch is data["result"]
PollOk ==
  /\ ppc = "poll"
  /\ LET param == OffsetParam(offset)
         result == GetUpdatesResult(queue, param)
     IN /\ queue' = Unconfirmed(queue, param)
        /\ batch' = result
        /\ lastBatchMax' = IF result = << >> THEN lastBatchMax ELSE Some(MaxId(result))
  /\ bi' = 1
  /\ ppc' = "for"
  /\ UNCHANGED << offset, pitem, nextId, withPayload, handled, called >>
  /\ UNCHANGED << cfgVars, dbVars, feedVars, saveHist >>
  /\ UNCHANGED << dropped, restarts, returned >>

\* the response says ok = false: warning, sleep, continue
PollNotOk ==
  /\ ppc = "poll"
  /\ ppc' = "sleep_notok"
  /\ UNCHANGED << offset, batch, bi, pitem >>
  /\ UNCHANGED << cfgVars, dbVars, backendVars, feedVars, pollHist, saveHist >>
  /\ UNCHANGED << dropped, restarts, returned >>

\* what the except branch does to the cursor, and where the loop goes next
CursorLostOnError(off) == None
CursorOnError(off) == off
ExitOnError == "dead"
AfterError == "sleep_except"

\* requests.get, raise_for_status or resp.json() raises: except branch
PollException ==
  /\ ppc = "poll"
  /\ ppc' = AfterError
  /\ offset' = CursorOnError(offset)
  /\ UNCHANGED << batch, bi, pitem >>
  /\ UNCHANGED << cfgVars, dbVars, backendVars, feedVars, pollHist, saveHist >>
  /\ UNCHANGED << dropped, restarts, returned >>

\* one pass of `for u in updates`, up to the call of save_article
\* (single-element quantifiers bind the values computed once per pass)
PollerUpdate ==
  /\ ppc = "for"
  /\ bi <= Len(batch)
  /\ \E u \in { batch[bi] } : \E msg \in { MsgOf(u) } :
        /\ offset' = Some(CursorAfter(u))
        /\ handled' = [handled EXCEPT ![u.update_id] = @ + 1]
        /\ IF IsNone(msg)
           THEN /\ bi' = bi + 1
                /\ returned' = returned \cup {u.update_id}
                /\ UNCHANGED << ppc, pitem, called, dropped >>
           ELSE \E a \in { ArgsOf(Val(msg)) } :
                \E combined \in { ChatCombined(a) } :
                \E lowered \in { Lower(combined) } :
                   /\ called' = [called EXCEPT ![u.update_id] = @ + 1]
                   /\ IF a.text = EmptyStr \/ ~any_keyword_in(lowered)
                      THEN /\ bi' = bi + 1
                           /\ dropped' = IF a.text = EmptyStr THEN dropped
                                         ELSE dropped \cup {"poller"}
                           /\ returned' = returned \cup {u.update_id}
                           /\ UNCHANGED << ppc, pitem >>
                      ELSE \E compl \in CompletionsIn(scope) :
                           \E cls \in { summarize_and_classify(compl) } :
                           /\ pitem' = [item |-> ChatItem(a, cls, clock),
                                        completion |-> compl, combined |-> combined]
                           /\ ppc' = "save"
                           /\ UNCHANGED << bi, dropped, returned >>
  /\ UNCHANGED << batch, lastBatchMax, restarts >>
  /\ UNCHANGED << cfgVars, dbVars, backendVars, feedVars, saveHist >>

\* save_article raises inside process_telegram_message: the loop's except
\* branch abandons the rest of the batch
PollerSaveRaises ==
  /\ ppc = "save"
  /\ SaveRaises("poller", pitem)
  /\ ppc' = AfterError
  /\ offset' = CursorOnError(offset)
  /\ pitem' = NoItem
  /\ UNCHANGED << batch, bi >>
  /\ UNCHANGED << cfgVars, backendVars, feedVars, pollHist >>
  /\ UNCHANGED << dropped, restarts, returned >>

PollerSaveExecute ==
  /\ ppc = "save"
  /\ SaveExecute("poller", pitem)
  /\ ppc' = "commit"
  /\ UNCHANGED << offset, batch, bi, pitem >>
  /\ UNCHANGED << cfgVars, backendVars, feedVars, pollHist >>
  /\ UNCHANGED << dropped, restarts, returned >>

\* commit; process_telegram_message returns True; next update
PollerSaveCommit ==
  /\ ppc = "commit"
  /\ SaveCommit("poller")
  /\ pitem' = NoItem
  /\ bi' = bi + 1
  /\ ppc' = "for"
  /\ returned' = returned \cup {batch[bi].update_id}
  /\ UNCHANGED << offset, batch >>
  /\ UNCHANGED << cfgVars, backendVars, feedVars, pollHist >>
  /\ UNCHANGED << dropped, restarts >>

\* the batch is exhausted: time.sleep(poll_interval)
BatchDone ==
  /\ ppc = "for"
  /\ bi > Len(batch)
  /\ ppc' = "sleep_ok"
  /\ UNCHANGED << offset, batch, bi, pitem >>
  /\ UNCHANGED << cfgVars, dbVars, backendVars, feedVars, pollHist, saveHist >>
  /\ UNCHANGED << dropped, restarts, returned >>

\* time.sleep(poll_interval) is over: next iteration of `while True`
Sleeping == {"sleep_ok", "sleep_notok", "sleep_except"}

PollerWake ==
  /\ ppc \in Sleeping
  /\ ppc' = "poll"
  /\ UNCHANGED << offset, batch, bi, pitem >>
  /\ UNCHANGED << cfgVars, dbVars, backendVars, feedVars, pollHist, saveHist >>
  /\ UNCHANGED << dropped, restarts, returned >>

\* the process dies and is started again (__main__): the table is kept by
\* init_db, an uncommitted INSERT rolls back, the thread starts anew and its
\* cursor, held in memory only, is gone; the backend still holds every update
\* that no request has confirmed
Restart ==
  /\ scope = "redeliver"
  /\ ppc \notin {"init", "off"}
  /\ restarts < MaxRestarts
  /\ restarts' = restarts + 1
  /\ ppc' = "init"
  /\ offset' = None
  /\ batch' = << >>
  /\ bi' = 1
  /\ pitem' = NoItem
  /\ pending' = [t \in {"feed", "poller"} |-> None]
  /\ dbLock' = "none"
  /\ UNCHANGED << store, clock >>
  /\ UNCHANGED << cfgVars, backendVars, feedVars, pollHist, saveHist >>
  /\ UNCHANGED << dropped, returned >>

\* ------------------------------------------------------------ specification
Feed ==
  \/ FetchRequest \/ FeedParse \/ FeedFinish \/ FeedItemsDone \/ FeedEntry
  \/ FeedSaveRaises \/ FeedSaveExecute \/ FeedSaveCommit \/ FeedSleep \/ FeedAbort

Poller ==
  \/ StartThread \/ PollOk \/ PollNotOk \/ PollException \/ PollerUpdate
  \/ PollerSaveRaises \/ PollerSaveExecute \/ PollerSaveCommit \/ BatchDone \/ PollerWake

Next == Feed \/ Poller \/ Arrive

\* each producer alone on its inputs, and both producers together on the
\* joint inputs
Spec == Init /\ [][Next]_vars

\* the feed job alone, on all feed inputs (start_telegram_thread returns
\* before app.run serves the first request)
NextFeed == Feed \/ StartThread
SpecFeed == InitFeed /\ [][NextFeed]_vars

\* the feed job alone, on feeds of ten entries and more
SpecCap == InitCap /\ [][NextFeed]_vars

\* the poller and its backend alone, on all chat inputs
NextPoller == Poller \/ Arrive
SpecPoller == InitPoller /\ [][NextPoller]_vars

\* the poller alone, on relevant messages of several chats
SpecUrls == InitUrls /\ [][NextPoller]_vars

\* the poller, its backend and restarts of the process
NextRedeliver == Poller \/ Arrive \/ Restart
SpecRedeliver == InitRedeliver /\ [][NextRedeliver]_vars

\* the poller thread is scheduled by the OS for as long as the process lives
LiveSpecPoller == InitLoop /\ [][NextPoller]_vars /\ WF_vars(Poller)

\* ------------------------------------------------------------------ claims
Rows(url) == { i \in 1..Len(store) : store[i].url = url }

\* the fields of a stored row that save_article received
ItemOfRow(r) ==
  [url |-> r.url, source |-> r.source, title |-> r.title, published_at |-> r.published_at,
   content |-> r.content, summary |-> r.summary, category |-> r.category,
   confidence |-> r.confidence]

IsPending(url) == \E t \in {"feed", "poller"} : ~IsNone(pending[t]) /\ Val(pending[t]).url = url

InSave(url) == Saving("feed", url) \/ Saving("poller", url)

\* C2: when the feed job and the poller are inside save_article at the same
\* time with the same url, the store never holds two records of that url, and
\* holds exactly one as soon as both calls have returned.
C2_ConcurrentSavesKeepOne ==
  \A url \in contended :
    /\ Cardinality(Rows(url)) <= 1
    /\ ~InSave(url) => Cardinality(Rows(url)) = 1

\* both producers saved the same url concurrently and both calls are over
C2_Witness ==
  \E url \in contended : ~InSave(url) /\ Cardinality(Rows(url)) = 1

\* some keyword occurs in the case-folded text: the text splits into a
\* prefix, the keyword up to the case of its letters, and a suffix
FoldsTo(c, k) == c = k \/ \E n \in 1..Len(UPPER) : UPPER[n] = c /\ LOWER[n] = k
HasKeyword(text) ==
  \E j \in 1..Len(KEYWORDS) :
    \E pre \in 0..Len(text) :
      /\ pre + Len(KEYWORDS[j]) <= Len(text)
      /\ \A m \in 1..Len(KEYWORDS[j]) : FoldsTo(text[pre + m], KEYWORDS[j][m])

\* C3: summarize_and_classify and save_article run only for items whose
\* combined text (title + page text, or chat title + handle + message text)
\* contains a keyword, and the store changes only by the commit of such an item.
C3_RelevanceGating ==
  [][ /\ (fpc' = "save" /\ fpc # "save") => HasKeyword(fitem'.combined)
      /\ (ppc' = "save" /\ ppc # "save") => HasKeyword(pitem'.combined)
      /\ store' # store =>
           \/ fpc = "commit" /\ fpc' # "commit" /\ HasKeyword(fitem.combined)
           \/ ppc = "commit" /\ ppc' # "commit" /\ HasKeyword(pitem.combined) ]_vars

\* an item without any keyword was dropped and nothing was stored
C3_Witness == dropped # {} /\ store = << >> /\ fpc # "save" /\ ppc # "save"

\* C4: whenever the poller is about to send a getUpdates request after an ok
\* batch with largest update id M, the request carries an offset >= M + 1,
\* also when save_article raised for a message of that batch.
C4_NextOffsetPastBatch ==
  (ppc = "poll" /\ ~IsNone(lastBatchMax)) =>
    /\ ~IsNone(OffsetParam(offset))
    /\ Val(OffsetParam(offset)) >= Val(lastBatchMax) + 1

\* C5: the cursor starts absent; once set it is never unset and never
\* decreases in any step, whatever the backend answers.
C5_CursorMonotonic ==
  /\ IsNone(offset)
  /\ [][ /\ IsNone(offset') => IsNone(offset)
         /\ (~IsNone(offset) /\ ~IsNone(offset')) => Val(offset') >= Val(offset) ]_vars

\* the cursor is set and the loop has been through its except branch
C5_Witness == ~IsNone(offset) /\ ppc = "sleep_except" /\ "poller" \in raisedIn

Arrived == FirstUpdateId .. (nextId - 1)
Acknowledged(id) == ~IsNone(offset) /\ id < Val(offset)

\* C6: the for-loop takes no update twice and process_telegram_message is
\* called for no update twice; every update the cursor has moved past was
\* taken exactly once, and handed to process_telegram_message exactly once if
\* it carries a message payload; nothing is taken before the cursor covers it.
C6_ExactlyOnceHandOff ==
  \A id \in Arrived :
    /\ handled[id] <= 1
    /\ called[id] <= 1
    /\ Acknowledged(id) => handled[id] = 1
    /\ (Acknowledged(id) /\ id \in withPayload) => called[id] = 1
    /\ ~Acknowledged(id) => handled[id] = 0

\* save_article raised part-way through a batch: the update it was called for
\* was taken once, the rest of the batch is neither taken nor acknowledged
C6_Witness ==
  /\ ppc = "sleep_except"
  /\ bi < Len(batch)
  /\ called[batch[bi].update_id] = 1
  /\ handled[batch[bi + 1].update_id] = 0
  /\ ~Acknowledged(batch[bi + 1].update_id)

PollRequest == PollOk \/ PollNotOk \/ PollException

\* C7: in every run in which the poller thread enters its loop, getUpdates
\* requests occur again and again without end, whatever fails in between.
C7_PollerKeepsPolling ==
  <>(ppc \notin {"init", "off"}) => []<><<PollRequest>>_vars

\* the loop is back at the request after save_article raised inside it
C7_Witness == ppc = "poll" /\ "poller" \in raisedIn

\* ---- what the completion backend delivered, as the classifier contract reads it
FieldOk(v, types) == v.t = "missing" \/ v.t \in types
FailedCompletion(c) ==
  \/ c.raises
  \/ c.out.t # "obj"
  \/ ~FieldOk(c.out.summary, {"str"})
  \/ ~FieldOk(c.out.category, {"str"})
  \/ ~(FieldOk(c.out.confidence, {"num"})
       \/ (c.out.confidence.t = "str" /\ c.out.confidence.s \in NumericStrings))

IsSentinel(item) ==
  /\ item.summary = JStr("(summary failed)", 16)
  /\ item.category = JStr("other", 5)
  /\ item.confidence = 0

\* C8: an item whose completion raised, was not JSON or had malformed fields is
\* saved with summary "(summary failed)", category other and confidence 0.0,
\* and no failure reaches the feed job or the poller loop.
C8_ClassifierFailureFallback ==
  /\ (fpc \in {"save", "commit", "raised"} /\ FailedCompletion(fitem.completion))
       => IsSentinel(fitem.item)
  /\ (ppc \in {"save", "commit"} /\ FailedCompletion(pitem.completion))
       => IsSentinel(pitem.item)
  /\ raisedIn = {}

\* C9: every stored record has its confidence within [0.0, 1.0].
C9_ConfidenceClamped ==
  \A i \in 1..Len(store) : store[i].confidence >= 0 /\ store[i].confidence <= 100

\* C10: every stored record has its category in the six-value domain.
C10_CategoryDomain ==
  \A i \in 1..Len(store) : store[i].category.t = "str" /\ store[i].category.s \in CATEGORIES

\* C11: a run of the feed job never ends in an exception: whatever a feed read,
\* a page fetch, the classifier or save_article does, the job goes on to the
\* next entry and the next feed and finishes with its flash message.
C11_FeedJobCompletes ==
  /\ fpc # "raised"
  /\ "feed" \notin raisedIn

\* an entry of the current feed has been examined to its end: skipped by one
\* of the two `continue`s, or saved
EntrySkipped == fpc = "items" /\ ii' = ii + 1
EntrySaved == fpc = "commit" /\ fpc' = "sleep"

\* C12: every entry the run examines, skipped or saved, adds one to the
\* considered count; every entry persisted adds one to the saved count; the
\* flash message reports the two counters.
C12_CountsReported ==
  [][ /\ (EntrySkipped \/ EntrySaved) => fetched' = fetched + 1
      /\ EntrySkipped => saved' = saved
      /\ EntrySaved => saved' - saved = Len(store') - Len(store)
      /\ (fpc = "feeds" /\ fpc' = "idle") =>
            flash' = Some([fetched |-> fetched, saved |-> saved]) ]_vars

\* the messages of the updates the backend holds
QueuedMessages == { Val(MsgOf(queue[i])) : i \in { j \in 1..Len(queue) : ~IsNone(MsgOf(queue[j])) } }
SameChat(m1, m2) == m1.chat.id = m2.chat.id
SameMessage(m1, m2) == m1.chat.id = m2.chat.id /\ m1.message_id = m2.message_id

\* C13: two messages that differ in chat or in message_id never get the same
\* pseudo-URL, with or without a public username, and the item handed to
\* save_article carries the pseudo-URL of the message being processed.
C13_MessageUrlInjective ==
  /\ \A m1, m2 \in QueuedMessages :
        ~SameMessage(m1, m2) => MsgUrl(ArgsOf(m1)) # MsgUrl(ArgsOf(m2))
  /\ ppc \in {"save", "commit"} => pitem.item.url = MsgUrl(ArgsOf(Val(MsgOf(batch[bi]))))

\* two messages of one chat were both stored, each under its own pseudo-URL
C13_Witness ==
  /\ Len(store) = 2
  /\ Len(batch) = 2
  /\ SameChat(Val(MsgOf(batch[1])), Val(MsgOf(batch[2])))
  /\ store[1].url = MsgUrl(ArgsOf(Val(MsgOf(batch[1]))))
  /\ store[2].url = MsgUrl(ArgsOf(Val(MsgOf(batch[2]))))

\* C14: every step of the item loop that fetches a page, classifies or saves
\* works on one of the first ten entries of its feed; past the tenth the only
\* step is the move to the next feed.
C14_PerFeedCap ==
  /\ ii <= FEED_CAP + 1
  /\ (fpc \in {"save", "commit", "sleep", "raised"}) => ii <= FEED_CAP
  /\ [][ (fpc = "items" /\ fpc' # "feeds") => ii <= FEED_CAP ]_vars

\* a feed of more than ten entries was left after its tenth entry, with
\* entries of it stored
C14_Witness ==
  /\ fpc = "feeds"
  /\ Len(items) > FEED_CAP
  /\ ii = FEED_CAP + 1
  /\ store # << >>

\* a getUpdates request ends in a not-ok answer or in an exception
RequestFailed == ppc = "poll" /\ ppc' \in {"sleep_notok", "sleep_except"}
AfterFailure == ppc \in {"sleep_notok", "sleep_except"}
IsPrefix(a, b) == Len(a) <= Len(b) /\ SubSeq(b, 1, Len(a)) = a
\* the batch the backend would return to a request sent now
NextBatch(q, off) == GetUpdatesResult(q, OffsetParam(off))

\* C15: a failed getUpdates request leaves the cursor as it was and leads into
\* the delay; the delay leaves the cursor alone and ends in the next request,
\* which therefore carries the same offset and is answered with the same
\* updates (followed by any that arrived meanwhile).
C15_CursorHeldOnFailure ==
  [][ /\ RequestFailed => (offset' = offset /\ queue' = queue)
      /\ AfterFailure => /\ offset' = offset
                         /\ ppc' \in {ppc, "poll"}
                         /\ IsPrefix(NextBatch(queue, offset), NextBatch(queue', offset')) ]_vars

\* the request failed by an exception while the cursor was set and updates
\* were waiting behind it
C15_Witness ==
  /\ ppc = "sleep_except"
  /\ "poller" \notin raisedIn
  /\ ~IsNone(offset)
  /\ NextBatch(queue, offset) # << >>

\* the item loop moves on to a further entry of the same feed, whose page is
\* fetched next
NextEntryFollows == fpc' = "items" /\ ii' = ii + 1 /\ ii' <= Len(items) /\ ii' <= FEED_CAP

\* C16: within a feed the item loop reaches the next page fetch only out of
\* the pacing delay, whether the entry before was skipped or saved.
C16_PacedPageFetches ==
  [][ NextEntryFollows => fpc = "sleep" ]_vars

\* an update without message payload, or whose message has neither text nor
\* caption
NoText(u) ==
  \/ IsNone(u.body.message) /\ IsNone(u.body.channel_post) /\ IsNone(u.body.edited_message)
  \/ LET m == Val(MsgOf(u)) IN ~Truthy(m.text) /\ ~Truthy(m.caption)

\* the for-loop takes the update at the head of the rest of the batch
TakesUpdate == ppc = "for" /\ bi <= Len(batch) /\ handled' # handled

\* C17: when the loop takes an update without text, the cursor becomes its
\* update id + 1 and the loop stands before the next update; no classifier
\* call is started and the store, the pending writes, the backend and the
\* feed job are as before.
C17_NoTextNoEffect ==
  [][ (TakesUpdate /\ NoText(batch[bi])) =>
        /\ offset' = Some(batch[bi].update_id + 1)
        /\ ppc' = "for"
        /\ bi' = bi + 1
        /\ UNCHANGED << batch, pitem, dbVars, backendVars, feedVars, saveHist, dropped >> ]_vars

\* a message without text in a chat whose title holds a keyword was taken and
\* nothing was stored
C17_Witness ==
  /\ ppc = "for"
  /\ bi > 1
  /\ bi <= Len(batch) + 1
  /\ NoText(batch[bi - 1])
  /\ ~IsNone(MsgOf(batch[bi - 1]))
  /\ HasKeyword(OrEmpty(ChatTitle(Val(MsgOf(batch[bi - 1])).chat)))
  /\ offset = Some(batch[bi - 1].update_id + 1)
  /\ store = << >>

\* the for-loop is at update id: it is about to take it, or is saving its item
InProcess(id) ==
  ppc \in {"for", "save", "commit"} /\ bi <= Len(batch) /\ batch[bi].update_id = id

C19_SavedCountMatchesStore ==
  [][ saved' > saved =>
        /\ saved' = saved + 1
        /\ Len(store') = Len(store) + 1
        /\ store'[Len(store')].url = fitem.item.url ]_vars

\* C20: without a token the poller never leaves its start: it sends no
\* request, holds no batch and no cursor, takes no update, calls neither
\* process_telegram_message nor the classifier, and writes nothing to the
\* store, whose records all come from the feed job.
C20_InertWithoutToken ==
  ~TELEGRAM_BOT_TOKEN =>
    /\ ppc \in {"init", "off"}
    /\ IsNone(offset)
    /\ batch = << >>
    /\ pitem = NoItem
    /\ IsNone(pending["poller"])
    /\ dbLock # "poller"
    /\ \A id \in UpdateIds : handled[id] = 0 /\ called[id] = 0
    /\ "poller" \notin raisedIn \cup dropped
    /\ \A i \in 1..Len(store) : store[i].source # "telegram"

\* the switch is on, the token is absent, the thread was not started, and the
\* feed job has stored an article
C20_Witness ==
  /\ ~TELEGRAM_BOT_TOKEN
  /\ TELEGRAM_POLLING
  /\ ppc = "off"
  /\ store # << >>
====
